---- MODULE Spec2Model ----
(***************************************************************************)
(* Model of the Lift construct registry (src/constructs/index.ts) and of   *)
(* the SQL database construct (src/constructs/aws/DatabaseSql.ts).         *)
(*                                                                         *)
(* A JavaScript string is a sequence of one-character strings, so that     *)
(* concatenation, replacement and pattern matching are computed character  *)
(* by character.  A configuration is a function whose domain is the set    *)
(* of the properties that are present; an absent property is undefined.    *)
(***************************************************************************)
EXTENDS Integers, Sequences, FiniteSets, TLC

VARIABLES registry, stackName, id, configuration, pc, self, deployment, results

vars == <<registry, stackName, id, configuration, pc, self, deployment, results>>

----------------------------------------------------------------------------
(* Bounds of the model *)

\* longest config.name that is enumerated
MaxNameLen == 2

\* number of times the stack is provisioned
MaxDeploys == 1

----------------------------------------------------------------------------
(* Values *)

\* The JavaScript value undefined: a one-element tuple holding an atom that
\* is not a character, so that no string of characters is equal to it.
Undefined == <<"undefined">>

Return(v) == [kind |-> "return", val |-> v]

Throw(e) == [kind |-> "throw", exc |-> e]

NotCalled == [kind |-> "notcalled"]

S_mysql == <<"m", "y", "s", "q", "l">>

S_mariadb == <<"m", "a", "r", "i", "a", "d", "b">>

S_postgres == <<"p", "o", "s", "t", "g", "r", "e", "s">>

S_main == <<"m", "a", "i", "n">>

S_admin == <<"a", "d", "m", "i", "n">>

S_password == <<"/", "p", "a", "s", "s", "w", "o", "r", "d">>

S_app_dev == <<"a", "p", "p", "-", "d", "e", "v">>

S_my_app == <<"m", "y", "_", "a", "p", "p">>

S_orders == <<"o", "r", "d", "e", "r", "s">>

\* the string made of n copies of the character c
RECURSIVE Repeat(_, _)
Repeat(c, n) == IF n = 0 THEN <<>> ELSE <<c>> \o Repeat(c, n - 1)

----------------------------------------------------------------------------
(* The configuration schema, DatabaseSql.ts lines 21-47 *)

\* SCHEMA.properties.password.minLength
PasswordMinLength == 8

\* SCHEMA.properties.storageSize.minimum
StorageSizeMinimum == 20

\* SCHEMA.properties.engine.enum
EngineEnum == {S_mysql, S_mariadb, S_postgres}

\* SCHEMA.properties: the recognised property names
Properties == {"name", "engine", "username", "password", "instanceType", "storageSize"}

Letters == {"a", "b", "d", "e", "i", "m", "n", "o", "p", "q", "r", "s", "t", "v", "y"}

Digits == {"0", "1", "2", "3", "4", "5", "6", "7", "8", "9"}

\* The character class [\w\d-_] of the name pattern: word characters,
\* digits, and the literal characters '-' and '_'.
NameClass == Letters \cup Digits \cup {"_", "-"}

\* SCHEMA.properties.name.pattern is the string ^[\w\d-_]*$/ :
\* start of input, k characters of the class, end of input, and then the
\* literal character '/'.  s matches when some k satisfies all four.
NamePattern(s) ==
    \E k \in 0..Len(s) :
        /\ \A i \in 1..k : s[i] \in NameClass
        /\ k = Len(s)
        /\ k + 1 <= Len(s)
        /\ s[k + 1] = "/"

\* Validation of a configuration against SCHEMA
SCHEMA(c) ==
    /\ DOMAIN c \subseteq Properties
    /\ "name" \in DOMAIN c => NamePattern(c["name"])
    /\ "engine" \in DOMAIN c => c["engine"] \in EngineEnum
    /\ "password" \in DOMAIN c => Len(c["password"]) >= PasswordMinLength
    /\ "storageSize" \in DOMAIN c => c["storageSize"] >= StorageSizeMinimum

----------------------------------------------------------------------------
(* The inputs: type Configuration = FromSchema<typeof SCHEMA>, line 49.    *)
(* The type keeps the property names, their types and the engine enum; it  *)
(* does not carry pattern, minLength or minimum.                           *)

NameAlphabet == {"a", "-", "_"}

Names == UNION { [1..k -> NameAlphabet] : k \in 0..MaxNameLen }

Passwords == { Repeat("p", n) : n \in {0, PasswordMinLength - 1, PasswordMinLength} }

StorageSizes == {StorageSizeMinimum - 1, StorageSizeMinimum, StorageSizeMinimum + 1}

FullConfigurations ==
    [name : Names, engine : EngineEnum, username : {S_admin},
     password : Passwords, instanceType : {"t3.large"}, storageSize : StorageSizes]

Configuration ==
    { [p \in D |-> full[p]] : full \in FullConfigurations, D \in SUBSET Properties }

StackNames == {S_app_dev, S_my_app}

Ids == {S_orders}

----------------------------------------------------------------------------
(* The registry, src/constructs/index.ts *)

\* export const constructs: type identifier -> {class, schema}
constructs ==
    [t \in {"storage", "queue", "static-website", "webhook", "server-side-website"} |->
        CASE t = "storage" -> [class |-> "Storage", schema |-> "STORAGE_DEFINITION"]
          [] t = "queue" -> [class |-> "Queue", schema |-> "QUEUE_DEFINITION"]
          [] t = "static-website" ->
                [class |-> "StaticWebsite", schema |-> "STATIC_WEBSITE_DEFINITION"]
          [] t = "webhook" -> [class |-> "Webhook", schema |-> "WEBHOOK_DEFINITION"]
          [] t = "server-side-website" ->
                [class |-> "ServerSideWebsite", schema |-> "SERVER_SIDE_WEBSITE_DEFINITION"]]

\* public static type / public static schema of class DatabaseSql
DatabaseSql == [type |-> "database/sql", class |-> "DatabaseSql", schema |-> "SCHEMA"]

----------------------------------------------------------------------------
(* class DatabaseSql: the private methods.  this is a record holding the   *)
(* fields assigned so far: id, configuration, provider, username,          *)
(* passwordSecretName and, once construction is over, dbInstance, proxy    *)
(* and dbHostOutput.                                                       *)

\* new ServerlessError(message, code) of getPlainPassword
ServerlessError(this) ==
    [name |-> "ServerlessError",
     code |-> "LIFT_INVALID_CONSTRUCT_CONFIGURATION",
     message |-> <<"Can't get the password as it was not provided for SQL Database '",
                   this.id, "'">>]

\* s.replace(/c/g, ""): every occurrence of the character c removed
RECURSIVE replace(_, _)
replace(s, c) ==
    IF s = <<>> THEN <<>>
    ELSE IF Head(s) = c THEN replace(Tail(s), c)
    ELSE <<Head(s)>> \o replace(Tail(s), c)

\* configuration.name ?? `${this.provider.stackName}-${id}`
instanceIdentifier(this) ==
    IF "name" \in DOMAIN this.configuration THEN this.configuration["name"]
    ELSE this.provider.stackName \o <<"-">> \o this.id

getDbName_hyphenOnly(this) ==
    LET name == IF "name" \in DOMAIN this.configuration THEN this.configuration["name"]
                ELSE this.provider.stackName \o <<"-">> \o this.id
    IN  replace(name, "-")

getDbName(this) ==
    LET name == IF "name" \in DOMAIN this.configuration THEN this.configuration["name"]
                ELSE this.provider.stackName \o <<"-">> \o this.id
    IN  replace(replace(name, "-"), "_")

getPlainPassword(this) ==
    IF "password" \notin DOMAIN this.configuration
    THEN Throw(ServerlessError(this))
    ELSE Return(this.configuration["password"])

getEngine_postgresDefault(this) ==
    IF "engine" \in DOMAIN this.configuration THEN this.configuration["engine"]
    ELSE S_postgres

getEngine(this) ==
    IF "engine" \in DOMAIN this.configuration THEN this.configuration["engine"]
    ELSE S_mysql

\* a switch without a default: when no case matches, the method returns
\* undefined
getEngineVersion_noPostgres(this) ==
    CASE getEngine(this) = S_mysql ->
            [engineType |-> "mysql", version |-> "8.0.23", major |-> "8.0"]
      [] getEngine(this) = S_mariadb ->
            [engineType |-> "mariadb", version |-> "10.5.8", major |-> "10.5"]
      [] OTHER -> [engineType |-> "undefined"]

getEngineVersion(this) ==
    CASE getEngine(this) = S_mysql ->
            [engineType |-> "mysql", version |-> "8.0.23", major |-> "8.0"]
      [] getEngine(this) = S_mariadb ->
            [engineType |-> "mariadb", version |-> "10.5.8", major |-> "10.5"]
      [] getEngine(this) = S_postgres ->
            [engineType |-> "postgres", version |-> "13.2", major |-> "13"]
      [] OTHER -> [engineType |-> "undefined"]

logsToEnable(this) ==
    CASE getEngine(this) = S_mysql -> <<"error", "slowquery">>
      [] getEngine(this) = S_mariadb -> <<"error", "slowquery">>
      [] getEngine(this) = S_postgres -> <<>>
      [] OTHER -> Undefined

\* `${this.provider.stackName}/${this.id}/password`
secretName(this) == this.provider.stackName \o <<"/">> \o this.id \o S_password

\* credentials() returns the Credentials and assigns this.passwordSecretName;
\* the result carries both.
credentials_noSecretName(this) ==
    LET password == IF "password" \in DOMAIN this.configuration
                    THEN this.configuration["password"] ELSE <<>>
    IN  IF password = <<>>
        THEN Return([passwordSecretName |-> this.passwordSecretName,
                     credentials |-> [from |-> "GeneratedSecret",
                                      username |-> this.username,
                                      secretName |-> this.passwordSecretName]])
        ELSE Return([passwordSecretName |-> this.passwordSecretName,
                     credentials |-> [from |-> "Password",
                                      username |-> this.username,
                                      password |-> [plainText |-> password]]])

credentials_plainPassword(this) ==
    IF getPlainPassword(this).kind = "throw"
    THEN getPlainPassword(this)
    ELSE Return([passwordSecretName |-> this.passwordSecretName,
                 credentials |-> [from |-> "Password",
                                  username |-> this.username,
                                  password |-> [plainText |-> getPlainPassword(this).val]]])

credentials(this) ==
    LET password == IF "password" \in DOMAIN this.configuration
                    THEN this.configuration["password"] ELSE <<>>
    IN  IF password = <<>>
        THEN Return([passwordSecretName |-> secretName(this),
                     credentials |-> [from |-> "GeneratedSecret",
                                      username |-> this.username,
                                      secretName |-> secretName(this)]])
        ELSE Return([passwordSecretName |-> this.passwordSecretName,
                     credentials |-> [from |-> "Password",
                                      username |-> this.username,
                                      password |-> [plainText |-> password]]])

\* configuration.instanceType ?? "t3.micro"
instanceType(config) ==
    IF "instanceType" \in DOMAIN config THEN config["instanceType"] ELSE "t3.micro"

allocatedStorage_fixed(config) == StorageSizeMinimum

\* configuration.storageSize ?? 20
allocatedStorage(config) ==
    IF "storageSize" \in DOMAIN config THEN config["storageSize"] ELSE 20

\* Duration.days(7)
backupRetention == [days |-> 7]

----------------------------------------------------------------------------
(* class DatabaseSql: the constructor *)

\* The constructor.  It returns the instance, or propagates what a method it
\* calls has thrown.
constructor(theId, theConfiguration, provider) ==
    LET this0 == [id |-> theId, configuration |-> theConfiguration, provider |-> provider,
                  username |-> IF "username" \in DOMAIN theConfiguration
                               THEN theConfiguration["username"] ELSE S_main,
                  passwordSecretName |-> Undefined]
        creds == credentials(this0)
    IN  IF creds.kind = "throw" THEN creds
        ELSE
        LET this1 == [this0 EXCEPT !.passwordSecretName = creds.val.passwordSecretName]
            dbInstance ==
                [instanceIdentifier |-> instanceIdentifier(this0),
                 databaseName |-> getDbName(this0),
                 engine |-> getEngineVersion(this0),
                 instanceType |-> instanceType(theConfiguration),
                 credentials |-> creds.val.credentials,
                 vpc |-> provider.vpc,
                 vpcSubnets |-> [subnetType |-> "PRIVATE_WITH_NAT"],
                 allocatedStorage |-> allocatedStorage(theConfiguration),
                 backupRetention |-> backupRetention,
                 cloudwatchLogsExports |-> logsToEnable(this1),
                 allowDefaultPortFrom |-> "appSecurityGroup"]
        IN  Return([id |-> this1.id,
                    configuration |-> this1.configuration,
                    provider |-> this1.provider,
                    username |-> this1.username,
                    passwordSecretName |-> this1.passwordSecretName,
                    dbInstance |-> dbInstance,
                    proxy |-> [id |-> "RdsProxy", secrets |-> <<>>, vpc |-> provider.vpc],
                    dbHostOutput |-> [id |-> "DbHost",
                                      value |-> [token |-> "instanceEndpoint.hostname"]]])

----------------------------------------------------------------------------
(* class DatabaseSql: the public methods *)

commands(this) == Return(<<>>)

\* the mapping holds one closure, which calls provider.getStackOutput on
\* this.dbHostOutput
outputs(this) ==
    Return([host |-> [call |-> "provider.getStackOutput", arg |-> this.dbHostOutput]])

\* Fn.join(delimiter, listOfValues)
FnJoin(delimiter, listOfValues) == [FnJoin |-> <<delimiter, listOfValues>>]

\* The properties of the object literal are evaluated in order; the
\* template literal of databaseUrl calls getPlainPassword, and what that
\* throws leaves variables() before the object exists.
variables(this) ==
    IF getPlainPassword(this).kind = "throw"
    THEN getPlainPassword(this)
    ELSE Return([host |-> [token |-> "instanceEndpoint.hostname"],
                 port |-> [token |-> "instanceEndpoint.port"],
                 username |-> this.username,
                 passwordSecret |-> this.passwordSecretName,
                 databaseUrl |->
                     FnJoin(<<>>,
                            << getEngine(this) \o <<":", "/", "/">> \o this.username
                                   \o <<":">> \o getPlainPassword(this).val \o <<"@">>,
                               [getAtt |-> "Endpoint.Address"],
                               <<"/">> \o getDbName(this) >>)])

\* provider.getStackOutput(output): the realised value of the output record
\* in the deployed stack, undefined while the stack is not deployed
getStackOutput(d, output) ==
    IF d = 0 THEN Undefined ELSE <<output.id, d>>

----------------------------------------------------------------------------
(* The state machine *)

Methods == {"commands", "outputs", "variables", "host"}

\* the provider handed to the constructor: stackName and enableVpc()
AwsProvider == [stackName |-> stackName, vpc |-> "vpc"]

Init ==
    /\ registry = constructs
    /\ stackName \in StackNames
    /\ id \in Ids
    /\ configuration \in Configuration
    /\ pc = "declared"
    /\ self = Undefined
    /\ deployment = 0
    /\ results = [m \in Methods |-> NotCalled]

\* new DatabaseSql(scope, id, configuration, provider)
Construct ==
    /\ pc = "declared"
    /\ LET r == constructor(id, configuration, AwsProvider)
       IN  IF r.kind = "throw"
           THEN /\ pc' = "failed"
                /\ self' = <<r.exc.code>>
           ELSE /\ pc' = "constructed"
                /\ self' = r.val
    /\ UNCHANGED <<registry, stackName, id, configuration, deployment, results>>

CallCommands ==
    /\ pc = "constructed"
    /\ results' = [results EXCEPT !["commands"] = commands(self)]
    /\ UNCHANGED <<registry, stackName, id, configuration, pc, self, deployment>>

CallOutputs ==
    /\ pc = "constructed"
    /\ results' = [results EXCEPT !["outputs"] = outputs(self)]
    /\ UNCHANGED <<registry, stackName, id, configuration, pc, self, deployment>>

\* a variant of variables() that assigns the secret name on demand
CallVariables_lazySecretName ==
    /\ pc = "constructed"
    /\ self' = [self EXCEPT !.passwordSecretName = secretName(self)]
    /\ results' = [results EXCEPT !["variables"] = variables(self')]
    /\ UNCHANGED <<registry, stackName, id, configuration, pc, deployment>>

CallVariables ==
    /\ pc = "constructed"
    /\ results' = [results EXCEPT !["variables"] = variables(self)]
    /\ UNCHANGED <<registry, stackName, id, configuration, pc, self, deployment>>

\* outputs().host(): the closure is called and its promise awaited
CallHost ==
    /\ pc = "constructed"
    /\ results' = [results EXCEPT
                      !["host"] = Return(getStackOutput(deployment, outputs(self).val.host.arg))]
    /\ UNCHANGED <<registry, stackName, id, configuration, pc, self, deployment>>

\* The stack is provisioned (again); what was observed before belongs to
\* the previous provisioning.
Deploy ==
    /\ pc = "constructed"
    /\ deployment < MaxDeploys
    /\ deployment' = deployment + 1
    /\ results' = [m \in Methods |-> NotCalled]
    /\ UNCHANGED <<registry, stackName, id, configuration, pc, self>>

Next ==
    \/ Construct
    \/ CallCommands
    \/ CallOutputs
    \/ CallVariables
    \/ CallHost
    \/ Deploy

Spec == Init /\ [][Next]_vars

----------------------------------------------------------------------------
(* Properties *)

\* the characters of a string other than '-' and '_', in order
Sanitized(s) == LET keep(c) == c \notin {"-", "_"} IN SelectSeq(s, keep)

\* the effective resource name of the declared construct
EffectiveName ==
    IF "name" \in DOMAIN configuration THEN configuration["name"]
    ELSE stackName \o <<"-">> \o id

\* "{stackName}/{id}/password"
ExpectedSecretName == stackName \o <<"/">> \o id \o <<"/", "p", "a", "s", "s", "w", "o", "r", "d">>

\* "{engine}://{username}:{password}@" + deferred host attribute + "/{dbName}"
ExpectedDatabaseUrl ==
    [FnJoin |->
        << <<>>,
           << (IF "engine" \in DOMAIN configuration THEN configuration["engine"]
               ELSE <<"m", "y", "s", "q", "l">>)
              \o <<":", "/", "/">>
              \o (IF "username" \in DOMAIN configuration THEN configuration["username"]
                  ELSE <<"m", "a", "i", "n">>)
              \o <<":">> \o configuration["password"] \o <<"@">>,
              [getAtt |-> "Endpoint.Address"],
              <<"/">> \o Sanitized(EffectiveName) >> >>]

\* C1: for an instance built from a configuration with no password,
\* access to variables().databaseUrl raises the error of code
\* LIFT_INVALID_CONSTRUCT_CONFIGURATION, and variables().passwordSecret is
\* still obtained and equals "{stackName}/{id}/password".
C1_PasswordSecretObtainable ==
    (/\ pc = "constructed"
     /\ "password" \notin DOMAIN configuration
     /\ results["variables"] # NotCalled)
    => LET r == results["variables"]
       IN  /\ \/ /\ r.kind = "throw"
                 /\ r.exc.code = "LIFT_INVALID_CONSTRUCT_CONFIGURATION"
              \/ /\ r.kind = "return"
                 /\ "kind" \in DOMAIN r.val.databaseUrl
                 /\ r.val.databaseUrl.kind = "throw"
                 /\ r.val.databaseUrl.exc.code = "LIFT_INVALID_CONSTRUCT_CONFIGURATION"
           /\ r.kind = "return"
           /\ "passwordSecret" \in DOMAIN r.val
           /\ r.val.passwordSecret = ExpectedSecretName

\* C2, as claimed: for an instance built with an explicit password,
\* variables().databaseUrl is the join of "{engine}://{username}:{password}@",
\* the deferred host attribute and "/{dbName}", and the mapping returned by
\* variables() has no passwordSecret entry.
C2_NoSecretEntry ==
    (/\ pc = "constructed"
     /\ "password" \in DOMAIN configuration
     /\ results["variables"] # NotCalled)
    => LET r == results["variables"]
       IN  /\ r.kind = "return"
           /\ r.val.databaseUrl = ExpectedDatabaseUrl
           /\ "passwordSecret" \notin DOMAIN r.val

\* C2, amended: for an instance built with an explicit password,
\* variables().databaseUrl is that join, and the mapping returned by
\* variables() has a passwordSecret entry, whose value is undefined when the
\* password is not the empty string.
C2_SecretEntryUndefined ==
    (/\ pc = "constructed"
     /\ "password" \in DOMAIN configuration
     /\ results["variables"] # NotCalled)
    => LET r == results["variables"]
       IN  /\ r.kind = "return"
           /\ r.val.databaseUrl = ExpectedDatabaseUrl
           /\ "passwordSecret" \in DOMAIN r.val
           /\ configuration["password"] # <<>> => r.val.passwordSecret = <<"undefined">>

C2_Witness ==
    /\ pc = "constructed"
    /\ "password" \in DOMAIN configuration
    /\ Len(configuration["password"]) = 8
    /\ "engine" \notin DOMAIN configuration
    /\ "username" \notin DOMAIN configuration
    /\ results["variables"].kind = "return"

\* C3: the database name passed at construction, and embedded in
\* databaseUrl, is the effective resource name (config.name if present, else
\* "{stackName}-{id}") with every '-' and '_' removed, so it holds neither;
\* stack "app-dev" and id "orders" with no name give "appdevorders"; the
\* instanceIdentifier is the effective name itself.
C3_DatabaseNameSanitized ==
    pc = "constructed" =>
        /\ self.dbInstance.databaseName = Sanitized(EffectiveName)
        /\ \A i \in 1..Len(self.dbInstance.databaseName) :
               self.dbInstance.databaseName[i] \notin {"-", "_"}
        /\ self.dbInstance.instanceIdentifier = EffectiveName
        /\ (/\ stackName = <<"a", "p", "p", "-", "d", "e", "v">>
            /\ id = <<"o", "r", "d", "e", "r", "s">>
            /\ "name" \notin DOMAIN configuration)
           => self.dbInstance.databaseName
                  = <<"a", "p", "p", "d", "e", "v", "o", "r", "d", "e", "r", "s">>
        /\ results["variables"].kind = "return"
           => results["variables"].val.databaseUrl.FnJoin[2][3]
                  = <<"/">> \o Sanitized(EffectiveName)

C3_Witness ==
    /\ pc = "constructed"
    /\ "name" \in DOMAIN configuration
    /\ configuration["name"] = <<"_", "a">>
    /\ self.dbInstance.databaseName = <<"a">>
    /\ self.dbInstance.instanceIdentifier = <<"_", "a">>
    /\ stackName = <<"a", "p", "p", "-", "d", "e", "v">>
    /\ results["variables"].kind = "return"

\* C4: for every engine of the schema enum and for an absent engine (mysql),
\* getEngineVersion and logsToEnable give a result and never fall through:
\* mysql -> 8.0.23 / 8.0 with logs error, slowquery; mariadb -> 10.5.8 / 10.5
\* with logs error, slowquery; postgres -> 13.2 / 13 with no logs.
C4_EngineMappingsTotal ==
    pc = "constructed" =>
        LET e == IF "engine" \in DOMAIN configuration THEN configuration["engine"]
                 ELSE <<"m", "y", "s", "q", "l">>
            v == self.dbInstance.engine
            l == self.dbInstance.cloudwatchLogsExports
        IN  /\ v.engineType # "undefined"
            /\ l # <<"undefined">>
            /\ e = <<"m", "y", "s", "q", "l">>
               => /\ v = [engineType |-> "mysql", version |-> "8.0.23", major |-> "8.0"]
                  /\ l = <<"error", "slowquery">>
            /\ e = <<"m", "a", "r", "i", "a", "d", "b">>
               => /\ v = [engineType |-> "mariadb", version |-> "10.5.8", major |-> "10.5"]
                  /\ l = <<"error", "slowquery">>
            /\ e = <<"p", "o", "s", "t", "g", "r", "e", "s">>
               => /\ v = [engineType |-> "postgres", version |-> "13.2", major |-> "13"]
                  /\ l = <<>>
            /\ e \in {<<"m", "y", "s", "q", "l">>, <<"m", "a", "r", "i", "a", "d", "b">>,
                      <<"p", "o", "s", "t", "g", "r", "e", "s">>}

C4_Witness ==
    /\ pc = "constructed"
    /\ "engine" \in DOMAIN configuration
    /\ configuration["engine"] = <<"p", "o", "s", "t", "g", "r", "e", "s">>
    /\ self.dbInstance.engine.version = "13.2"
    /\ self.dbInstance.cloudwatchLogsExports = <<>>

\* C5: with neither instanceType nor storageSize supplied the instance has
\* type t3.micro and allocated storage 20; backup retention is 7 days; a
\* supplied instanceType or storageSize is used instead; and for every
\* schema-valid configuration the allocated storage is at least 20.
C5_Defaults ==
    pc = "constructed" =>
        /\ self.dbInstance.backupRetention = [days |-> 7]
        /\ "instanceType" \notin DOMAIN configuration
           => self.dbInstance.instanceType = "t3.micro"
        /\ "storageSize" \notin DOMAIN configuration
           => self.dbInstance.allocatedStorage = 20
        /\ "instanceType" \in DOMAIN configuration
           => self.dbInstance.instanceType = configuration["instanceType"]
        /\ "storageSize" \in DOMAIN configuration
           => self.dbInstance.allocatedStorage = configuration["storageSize"]
        /\ SCHEMA(configuration) => self.dbInstance.allocatedStorage >= 20

C5_Witness ==
    /\ pc = "constructed"
    /\ SCHEMA(configuration)
    /\ "storageSize" \in DOMAIN configuration
    /\ "instanceType" \in DOMAIN configuration
    /\ self.dbInstance.allocatedStorage = 21
    /\ self.dbInstance.instanceType = "t3.large"

\* C6: on a constructed instance, a call of outputs() or variables() (or of
\* the host accessor) made again with no provisioning in between returns
\* what the earlier call returned, and no call changes the instance's state
\* (username, passwordSecretName, configuration, resource handles).
C6_AccessorsIdempotent ==
    [][pc = "constructed" =>
          /\ self' = self
          /\ configuration' = configuration
          /\ \A m \in {"outputs", "variables", "host"} :
                (results[m] # NotCalled /\ deployment' = deployment)
                => results'[m] = results[m]]_vars

C6_Witness ==
    /\ pc = "constructed"
    /\ results["variables"].kind = "return"
    /\ results["outputs"].kind = "return"
    /\ results["host"].kind = "return"
    /\ deployment = 1

\* C7: the registry holds every construct type the system implements:
\* lookup of storage, queue, static-website, webhook, server-side-website
\* and of the SQL database's type identifier "database/sql" each gives that
\* construct's class and schema; the registry is never changed after startup.
C7_RegistryComplete ==
    /\ registry = constructs
    /\ \A t \in {"storage", "queue", "static-website", "webhook", "server-side-website",
                 DatabaseSql.type} :
          /\ t \in DOMAIN registry
          /\ t = DatabaseSql.type
             => registry[t] = [class |-> DatabaseSql.class, schema |-> DatabaseSql.schema]

\* C8: construction never raises LIFT_INVALID_CONSTRUCT_CONFIGURATION; and
\* once variables() has raised it, the instance's state is as before, the
\* instance stays constructed, and commands(), outputs() and the host
\* accessor do not raise and return what they returned before the failed
\* call.
C8_FailureConfinedToAccessor ==
    /\ [](pc # "failed")
    /\ [][(/\ pc = "constructed"
           /\ \/ results["variables"].kind = "throw"
              \/ results'["variables"].kind = "throw")
          => /\ self' = self
             /\ pc' = "constructed"
             /\ results'["variables"].kind = "throw"
                => results'["variables"].exc.code = "LIFT_INVALID_CONSTRUCT_CONFIGURATION"
             /\ \A m \in {"commands", "outputs", "host"} :
                   /\ results'[m].kind # "throw"
                   /\ (results[m] # NotCalled /\ deployment' = deployment)
                      => results'[m] = results[m]]_vars

C8_Witness ==
    /\ pc = "constructed"
    /\ results["variables"].kind = "throw"
    /\ results["commands"].kind = "return"
    /\ results["outputs"].kind = "return"
    /\ results["host"].kind = "return"

\* C9: a configuration whose name is a non-empty string of letters, digits,
\* underscores and hyphens passes the schema's name pattern, and
\* construction then uses that name verbatim as the instanceIdentifier.
C9_NamePassesPattern ==
    (/\ "name" \in DOMAIN configuration
     /\ configuration["name"] # <<>>
     /\ \A i \in 1..Len(configuration["name"]) :
           configuration["name"][i] \in
               {"a", "b", "d", "e", "i", "m", "n", "o", "p", "q", "r", "s", "t", "v", "y",
                "0", "1", "2", "3", "4", "5", "6", "7", "8", "9", "_", "-"})
    => /\ NamePattern(configuration["name"])
       /\ pc = "constructed" => self.dbInstance.instanceIdentifier = configuration["name"]

\* C10: for an instance built from a schema-valid configuration, in every
\* state exactly one credential path is in effect: passwordSecretName is
\* "{stackName}/{id}/password", the credentials are a generated secret of
\* that name and getPlainPassword raises; or passwordSecretName is undefined,
\* the credentials are the supplied password verbatim and getPlainPassword
\* returns that password.
C10_OneCredentialPath ==
    (pc = "constructed" /\ SCHEMA(configuration)) =>
        LET generated ==
                /\ "password" \notin DOMAIN configuration
                /\ self.passwordSecretName = ExpectedSecretName
                /\ self.dbInstance.credentials
                       = [from |-> "GeneratedSecret", username |-> self.username,
                          secretName |-> ExpectedSecretName]
                /\ getPlainPassword(self).kind = "throw"
            plaintext ==
                /\ "password" \in DOMAIN configuration
                /\ self.passwordSecretName = <<"undefined">>
                /\ self.dbInstance.credentials
                       = [from |-> "Password", username |-> self.username,
                          password |-> [plainText |-> configuration["password"]]]
                /\ getPlainPassword(self) = [kind |-> "return", val |-> configuration["password"]]
        IN  generated # plaintext

C10_Witness ==
    /\ pc = "constructed"
    /\ SCHEMA(configuration)
    /\ "password" \in DOMAIN configuration
    /\ self.passwordSecretName = <<"undefined">>
    /\ self.dbInstance.credentials.from = "Password"
    /\ results["variables"].kind = "return"

====
